---- MODULE Spec2Model ----
(***************************************************************************)
(* Model of the provider resilience layer of llm-wrapper:                  *)
(*   KeyRotator            src/src/provider/ollamacloud.ts 377-408         *)
(*   BaseProvider          src/src/provider/ollamacloud.ts 311-373         *)
(*   OllamaCloudProvider   src/src/provider/ollamacloud.ts   4-304         *)
(*   OpenAIProvider        src/src/provider/openai.ts        4-41          *)
(*                                                                         *)
(* One provider instance is constructed from a credential pool and then    *)
(* used by several callers.  JavaScript runs every handler to completion   *)
(* up to its next await, so one action is one run-to-completion segment:   *)
(* the only suspension point of sendRequest is the upstream call inside    *)
(* doSendRequest.                                                          *)
(***************************************************************************)
EXTENDS Integers, Sequences, FiniteSets, TLC

\* ------------------------------------------------------------------ bounds
MaxPool == 3
MaxSends == 2
MaxLoads == 3
MaxMsgs == 3

\* Concurrent callers of the one provider instance.
Callers == {"c1", "c2"}

\* Credential strings; a configured pool is a prefix of this list.
AllKeys == <<"key0", "key1", "key2", "key3", "key4">>

\* What keys[i] evaluates to in JavaScript when i is no index of the array.
UNDEFINED == "undefined"

\* The two shipped adapter classes.
Classes == {"OllamaCloudProvider", "OpenAIProvider"}

\* Constructor arguments: the apiKeys array may be absent (null/undefined),
\* empty, or hold 1..MaxPool credentials.
PoolArgs ==
    {[present |-> FALSE, keys |-> <<>>]}
        \cup {[present |-> TRUE, keys |-> SubSeq(AllKeys, 1, n)] : n \in 0..MaxPool}

\* Errors an upstream client call can reject with.  `words` abstracts the
\* lower-cased message text by the classifier keywords it contains, `status`
\* is the HTTP status (0: none), `code` the upstream error code, `payload`
\* what the error's `error` property is ("absent", "string" or "object"), and
\* `error` the keywords of that property where it is a string.
UpstreamErrors ==
    { [words |-> {"quota"}, status |-> 0,   code |-> "quota_exceeded",
       payload |-> "absent", error |-> {}],
      [words |-> {},        status |-> 401, code |-> "invalid_api_key",
       payload |-> "absent", error |-> {}] }

\* ------------------------------------------------------------------- state
VARIABLES
    constructed,      \* "new" | "ready" | "failed": outcome of the constructor
    ctorArg,          \* history: the apiKeys argument the constructor was given
    cls,              \* class of the provider instance
    keys,             \* KeyRotator.keys
    currentKeyIndex,  \* KeyRotator.currentKeyIndex
    nextLog,          \* history: index and key of every getNextKey call, in order
    pc,               \* per caller: "idle" | "awaiting" | "returned" | "threw"
    totalKeys,        \* sendRequest local: totalKeys
    attempt,          \* sendRequest local: attempt
    lastError,        \* sendRequest local: lastError
    calls,            \* history: doSendRequest calls of the caller's current send
    result,           \* what the caller's send returned or threw
    overlap,          \* history: another send was in flight during this send
    sendsStarted,     \* number of sendRequest calls so far
    lastUsage,        \* history: the most recent getUsage call
    providers,        \* ProviderManager.providers: name -> cached instance (0: none)
    instances,        \* history: the provider instances built so far, by name
    loads,            \* per loader: its getProvider call and where it stands
    raced,            \* history: names for which two loads were in flight at once
    loadsStarted,     \* number of getProvider calls so far
    applied           \* the last application of a function of the normalizer

\* State of the provider registry (src/src/provider.ts).
regVars == <<providers, instances, loads, raced, loadsStarted>>

\* State of one provider instance and its callers.
provVars == <<constructed, ctorArg, cls, keys, currentKeyIndex, nextLog, pc, totalKeys,
              attempt, lastError, calls, result, overlap, sendsStarted, lastUsage>>

vars == <<provVars, regVars, applied>>

Null == [kind |-> "null"]
Pending == [kind |-> "pending"]

\* ------------------------------------------------------------- KeyRotator
\* Faulty variant: the guard forgets the empty array.
RotatorRejectsAbsentOnly(arg) == ~arg.present

\* constructor guard: !keys || keys.length === 0
RotatorRejects(arg) == ~arg.present \/ Len(arg.keys) = 0

\* keys[i] with a JavaScript (0-based) index
KeyAt(ks, i) == IF i \in 0..(Len(ks) - 1) THEN ks[i + 1] ELSE UNDEFINED

\* Faulty variant: the increment without the wrap.
NextIndexNoWrap(i, n) == i + 1

\* Faulty variant: the wrap taken one position too late.
NextIndexLateWrap(i, n) == (i + 1) % (n + 1)

\* Faulty variant: the cursor is set on the first call and never advanced again.
NextIndexStuck(i, n) == IF i = -1 THEN 0 ELSE i

\* (this.currentKeyIndex + 1) % this.keys.length
NextIndex(i, n) == (i + 1) % n

\* getCurrentKey(): return this.keys[this.currentKeyIndex]; it has no throw.
getCurrentKey == [threw |-> FALSE, value |-> KeyAt(keys, currentKeyIndex)]

getCurrentIndex == currentKeyIndex

getKeyCount == Len(keys)

\* ------------------------------------------------------------ the adapters
\* doSendRequest's catch block: new Error(`Failed to connect to ...: ${error.message}`)
\* with provider_error = error.  The fixed prefix holds no classifier keyword, so
\* the wrapper's message holds exactly the keywords of the upstream message.  `id`
\* stands for the identity of the error object: caller and attempt that created it.
WrapError(p, a, e) ==
    [kind |-> "error", id |-> <<p, a>>, message |-> e.words, provider_error |-> e]

\* doSendRequest's normal completion: the response built for this call.
MakeResponse(p, a, key) == [kind |-> "response", id |-> <<p, a>>, apiKey |-> key]

\* OllamaCloudProvider.isQuotaExceededError
OllamaIsQuotaExceededError(error) ==
    \/ "quota" \in error.message
    \/ "rate limit" \in error.message
    \/ "too many requests" \in error.message
    \/ error.provider_error.status = 429
    \/ error.provider_error.status \in {502, 503, 504}
    \/ "upstream error" \in error.message
    \/ "bad gateway" \in error.message
    \/ "service unavailable" \in error.message
    \/ "gateway timeout" \in error.message
    \/ "quota" \in error.provider_error.error
    \/ "rate limit" \in error.provider_error.error

\* OllamaCloudProvider.isQuotaExceededError throws instead of returning: no
\* earlier test returned true, and `providerError?.error?.includes` is called
\* on a value that is neither nullish nor a string, so has no `includes`.
OllamaClassifierRaises(error) ==
    /\ error.message \cap {"quota", "rate limit", "too many requests", "upstream error",
                           "bad gateway", "service unavailable", "gateway timeout"} = {}
    /\ error.provider_error.status \notin {429, 502, 503, 504}
    /\ error.provider_error.payload = "object"

\* OpenAIProvider.isQuotaExceededError: error.code === 'quota_exceeded', read on
\* the wrapper that doSendRequest threw (the upstream code sits in provider_error).
OpenAIIsQuotaExceededError(error) ==
    IF "code" \in DOMAIN error THEN error.code = "quota_exceeded" ELSE FALSE

\* this.isQuotaExceededError(error), dispatched on the instance's class
isQuotaExceededError(c, error) ==
    IF c = "OllamaCloudProvider"
    THEN OllamaIsQuotaExceededError(error)
    ELSE OpenAIIsQuotaExceededError(error)

\* this.isQuotaExceededError(error) throws; OpenAIProvider's reads one property
\* of an Error object and cannot.
ClassifierRaises(c, error) ==
    c = "OllamaCloudProvider" /\ OllamaClassifierRaises(error)

\* TypeError: providerError.error.includes is not a function
ClassifierTypeError == [kind |-> "error", name |-> "TypeError", message |-> {}]

\* doGetUsage(apiKey): `return null` in both adapters, whatever the key
doGetUsage(apiKey) == "null"

\* ----------------------------------------------------------- BaseProvider
\* Faulty variant: the loop stops one attempt short.
LoopContinuesOffByOne(a, total) == a < total - 1

\* Faulty variant: the loop allows one attempt more than there are keys.
LoopContinuesInclusive(a, total) == a <= total

\* loop condition of sendRequest: attempt < totalKeys
LoopContinues(a, total) == a < total

\* Faulty variant: the catch block retries whatever the error is.
CatchContinuesAlways(c, error) == TRUE

\* the catch block of sendRequest: `continue` iff this.isQuotaExceededError(error)
CatchContinues(c, error) == isQuotaExceededError(c, error)

\* Faulty variant: the loop's exit wraps the last error in a tagged exhaustion error.
ExhaustedThrowTagged(err) == [kind |-> "error", exhausted |-> TRUE, cause |-> err]

\* what sendRequest throws once the loop is over: throw lastError
ExhaustedThrow(err) == err

\* what sendRequest throws from the catch block on a non-quota error: throw error
FatalThrow(err) == err

\* The catch block of sendRequest for the error a doSendRequest call threw:
\* continue with the next key, rethrow the error, or let the classifier's own
\* exception escape.
CatchBlock(c, error) ==
    IF ClassifierRaises(c, error)
    THEN [kind |-> "throw", error |-> ClassifierTypeError]
    ELSE IF CatchContinues(c, error)
    THEN [kind |-> "continue", error |-> error]
    ELSE [kind |-> "throw", error |-> FatalThrow(error)]

\* Errors handed to the classifier: the wrappers doSendRequest throws for
\* upstream errors of every combination of message keywords, status, code and
\* `error` property.
ClassifierInputs ==
    {WrapError("c1", 0, [words |-> w, status |-> s, code |-> k,
                         payload |-> y.payload, error |-> y.error]) :
        w \in {{}, {"quota"}, {"bad gateway"}},
        s \in {0, 401, 429, 503},
        k \in {"", "quota_exceeded"},
        y \in {[payload |-> "absent", error |-> {}],
               [payload |-> "string", error |-> {}],
               [payload |-> "string", error |-> {"rate limit"}],
               [payload |-> "object", error |-> {}]}}

\* One pass through the loop head of sendRequest for caller p with attempt = a:
\* either rotate to the next key and start doSendRequest (suspending at the
\* upstream call), or leave the loop and throw lastError.
\* `done` holds the doSendRequest calls this send has completed so far.
Iterate(p, a, total, err, done) ==
    /\ attempt' = [attempt EXCEPT ![p] = a]
    /\ lastError' = [lastError EXCEPT ![p] = err]
    /\ IF LoopContinues(a, total)
       THEN LET idx == NextIndex(currentKeyIndex, Len(keys)) IN
            /\ currentKeyIndex' = idx
            /\ nextLog' = Append(nextLog, [index |-> idx, key |-> KeyAt(keys, idx)])
            /\ calls' = [calls EXCEPT ![p] =
                            Append(done,
                                   [pos |-> idx, apiKey |-> KeyAt(keys, idx),
                                    outcome |-> Pending])]
            /\ pc' = [pc EXCEPT ![p] = "awaiting"]
            /\ result' = [result EXCEPT ![p] = Pending]
       ELSE /\ UNCHANGED <<currentKeyIndex, nextLog>>
            /\ calls' = [calls EXCEPT ![p] = done]
            /\ pc' = [pc EXCEPT ![p] = "threw"]
            /\ result' = [result EXCEPT ![p] =
                             [kind |-> "throw", error |-> ExhaustedThrow(err)]]

\* ------------------------------------------------------- ProviderManager
\* Concurrent request handlers calling getProvider.
Loaders == {"g1", "g2"}

\* Provider names a request can carry.  The first four are keys of
\* config.provider; "missing" is not; "toString" is not either, but it is a
\* property every plain JavaScript object inherits.
Configured == {"ollama", "gpt", "broken", "nokeys"}
Names == Configured \cup {"missing", "toString"}

IdleLoad == [pc |-> "idle"]

\* config.provider as loaded from config.yml: adapter class and credential
\* pool per provider name.
Config ==
    [n \in Configured |->
        CASE n = "ollama" -> [class |-> "ollamacloud", keys |-> <<"key0", "key1">>]
          [] n = "gpt" -> [class |-> "openai", keys |-> <<"key0">>]
          [] n = "broken" -> [class |-> "nosuchadapter", keys |-> <<"key0">>]
          [] n = "nokeys" -> [class |-> "ollamacloud", keys |-> <<>>]]

\* The modules import(`./provider/${class}`) can resolve; both export default.
AdapterModules == {"ollamacloud", "openai"}

\* Property names a plain object inherits from Object.prototype.
InheritedNames == {"toString"}

\* this.config.provider[providerName]: the descriptor under an own key; for an
\* inherited property a truthy value that has neither `class` nor `api`;
\* undefined otherwise.
ConfigLookup(n) ==
    IF n \in DOMAIN Config
    THEN [truthy |-> TRUE, class |-> Config[n].class, keys |-> Config[n].keys]
    ELSE IF n \in InheritedNames
    THEN [truthy |-> TRUE, class |-> "undefined", keys |-> <<>>]
    ELSE [truthy |-> FALSE, class |-> "undefined", keys |-> <<>>]

\* Faulty variant: the cache is never consulted.
CacheHitNever(n) == FALSE

\* this.providers.has(providerName)
CacheHit(n) == providers[n] # 0

\* new Error(`Provider ${providerName} not found in config`)
NotFoundError(n) == [kind |-> "error", message |-> "not found in config", name |-> n]

\* new Error(`Failed to load provider ${providerName}: ${error}`)
LoadFailedError(n) == [kind |-> "error", message |-> "Failed to load provider", name |-> n]

\* What the try block of loadProvider does once import() has settled: the
\* import rejects for an unknown module, and the provider's constructor throws
\* for a pool its KeyRotator rejects; either lands in the catch block.
LoadFails(d) ==
    \/ d.class \notin AdapterModules
    \/ RotatorRejects([present |-> TRUE, keys |-> d.keys])

\* ------------------------------------------- OllamaCloudProvider normalizer
\* A text is the sequence of the pieces it was concatenated from; a piece
\* holds a line break only where it is the piece "\n" or "\n\n".
Join(texts, sep) ==
    LET RECURSIVE upto(_)
        upto(k) == IF k = 0 THEN <<>>
                   ELSE IF k = 1 THEN texts[1]
                   ELSE upto(k - 1) \o sep \o texts[k]
    IN upto(Len(texts))

\* A message of the request.  `tool_calls` and `name` may be absent, and an
\* empty tool_calls array is present (and truthy).
Absent == [present |-> FALSE, list |-> <<>>]
ToolCalls(list) == [present |-> TRUE, list |-> list]
Msg(role, content, name, tcs) ==
    [role |-> role, content |-> content, name |-> name, tool_calls |-> tcs]

SearchCall == [name |-> "websearch", arguments |-> "{\"q\":\"weather\"}"]
ClockCall == [name |-> "clock", arguments |-> "{}"]

\* The messages request lists are made of.
SampleMessages ==
    { Msg("system", <<"Be brief.">>, "", Absent),
      Msg("user", <<"What is the weather?">>, "", Absent),
      Msg("assistant", <<>>, "", ToolCalls(<<SearchCall>>)),
      Msg("assistant", <<>>, "", ToolCalls(<<SearchCall, ClockCall>>)),
      Msg("assistant", <<"Let me think.">>, "", ToolCalls(<<>>)),
      Msg("tool", <<"sunny">>, "websearch", Absent),
      Msg("tool", <<"12:00">>, "", Absent),
      Msg("tool", <<"rainy">>, "websearch", ToolCalls(<<>>)) }

RECURSIVE ListsUpTo(_)
ListsUpTo(k) ==
    IF k = 0 THEN {<<>>}
    ELSE LET shorter == ListsUpTo(k - 1) IN
         shorter \cup {Append(l, m) : l \in {x \in shorter : Len(x) = k - 1},
                                      m \in SampleMessages}

MessageLists == ListsUpTo(MaxMsgs)

\* The text buildToolInstruction returns for the request's tools.
Instruction == <<"You have access to the following tools: ...">>

\* Faulty variant: the tool call is flattened without its arguments.
ToolCallLineNoArguments(tc) == <<"{\"tool\":\"", tc.name, "\"}">>

\* `{"tool":"${tc.function.name}","arguments":${args}}`
ToolCallLine(tc) ==
    <<"{\"tool\":\"", tc.name, "\",\"arguments\":", tc.arguments, "}">>

\* msg.tool_calls.map(...).join('\n')
ToolCallsText(list) ==
    Join([i \in 1..Len(list) |-> ToolCallLine(list[i])], <<"\n">>)

\* `Tool result from ${msg.name || 'tool'}:\n${msg.content}`
ToolResultText(msg) ==
    <<"Tool result from ", IF msg.name = "" THEN "tool" ELSE msg.name, ":", "\n">>
        \o msg.content

\* The callback of preprocessMessages' map: a message with (truthy)
\* tool_calls becomes {role, content}; otherwise a tool message becomes a
\* user message; any other message is passed through.
PreprocessOne(msg) ==
    IF msg.tool_calls.present
    THEN Msg(msg.role, ToolCallsText(msg.tool_calls.list), "", Absent)
    ELSE IF msg.role = "tool"
    THEN Msg("user", ToolResultText(msg), "", Absent)
    ELSE msg

preprocessMessages(messages) ==
    [i \in 1..Len(messages) |-> PreprocessOne(messages[i])]

\* Faulty variant: only a leading system message counts.
HasLeadingSystemMessage(messages) ==
    messages # <<>> /\ messages[1].role = "system"

\* messages.some(msg => msg.role === 'system')
HasSystemMessage(messages) ==
    \E i \in 1..Len(messages) : messages[i].role = "system"

\* Faulty variant: the instruction always goes into a new first message.
InjectAlwaysPrepends(messages, instruction) ==
    <<Msg("system", instruction, "", Absent)>> \o messages

\* Faulty variant: only the first system message gets the instruction.
InjectIntoFirstSystemMessage(messages, instruction) ==
    IF HasSystemMessage(messages)
    THEN [i \in 1..Len(messages) |->
            IF messages[i].role = "system"
                 /\ \A j \in 1..(i - 1) : messages[j].role # "system"
            THEN [messages[i] EXCEPT !.content = @ \o <<"\n\n">> \o instruction]
            ELSE messages[i]]
    ELSE <<Msg("system", instruction, "", Absent)>> \o messages

injectToolInstruction(messages, instruction) ==
    IF HasSystemMessage(messages)
    THEN [i \in 1..Len(messages) |->
            IF messages[i].role = "system"
            THEN [messages[i] EXCEPT !.content = @ \o <<"\n\n">> \o instruction]
            ELSE messages[i]]
    ELSE <<Msg("system", instruction, "", Absent)>> \o messages

\* The `messages` doSendRequest hands to ollama.chat.
DispatchedMessages(messages, hasTools) ==
    IF hasTools
    THEN injectToolInstruction(preprocessMessages(messages), Instruction)
    ELSE preprocessMessages(messages)

\* JavaScript values as JSON.parse returns them.
Undefined == [t |-> "undefined"]
JsonNull == [t |-> "null"]
Str(s) == [t |-> "string", v |-> s]
Bool(b) == [t |-> "boolean", v |-> b]
\* A number is kept as its literal; a literal beyond the double range parses
\* to Infinity.
Num(lit) == [t |-> "number", finite |-> TRUE, v |-> lit]
Infinity == [t |-> "number", finite |-> FALSE, v |-> "1e400"]
Obj(fields) == [t |-> "object", fields |-> fields]

\* obj[f]: undefined for a field the value does not have.
Get(obj, f) ==
    IF obj.t = "object" /\ f \in DOMAIN obj.fields THEN obj.fields[f] ELSE Undefined

\* The operand of `&&` and `if` counts as true.
Truthy(v) ==
    CASE v.t \in {"undefined", "null"} -> FALSE
      [] v.t = "string" -> v.v # ""
      [] v.t = "number" -> v.v # "0"
      [] v.t = "boolean" -> v.v
      [] OTHER -> TRUE

\* No JSON value: JSON.parse threw, or there was no text to hand to it.
NoJson == [t |-> "none"]

WeatherArgs == Obj([q |-> Str("weather")])
ToolJson == Obj([tool |-> Str("websearch"), arguments |-> WeatherArgs])
FinalJson == Obj([final |-> Str("It is sunny.")])
EmptyFinalJson == Obj([final |-> Str("")])
BothJson == Obj([tool |-> Str("websearch"), arguments |-> WeatherArgs,
                 final |-> Str("It is sunny.")])
EmptyObject == Obj(<<>>)
FinalNumberJson == Obj([final |-> Num("42")])
ToolEmptyArgs == Obj([tool |-> Str("clock"), arguments |-> EmptyObject])
ToolNullArgs == Obj([tool |-> Str("clock"), arguments |-> JsonNull])
EmptyToolJson == Obj([tool |-> Str(""), arguments |-> WeatherArgs])
ToolBigArgs == Obj([tool |-> Str("websearch"),
                    arguments |-> Obj([q |-> Str("weather"), limit |-> Infinity])])

\* What JSON.parse makes of a text that starts with "{" and ends with "}".
ObjectOutcomes ==
    {ToolJson, FinalJson, EmptyFinalJson, BothJson, EmptyObject,
     FinalNumberJson, ToolEmptyArgs, ToolNullArgs, EmptyToolJson, ToolBigArgs, NoJson}

\* The outcome of a regular-expression match and of parsing what it captured.
NoMatch == [found |-> FALSE]
Found(parse) == [found |-> TRUE, parse |-> parse]

\* What the brace pattern's capture can parse to in a reply whose fenced
\* block parses to f.
SpanOutcomes(f) ==
    {x \in ObjectOutcomes :
        \/ x \in {f, NoJson}
        \/ f = NoJson
        \/ f = EmptyObject /\ x \in {ToolJson, FinalJson, BothJson}}

\* A reply of the model, described by what each decoding stage makes of it:
\* JSON.parse of the trimmed reply, the fenced-block pattern, and the pattern
\* from the first "{" to the last "}".  A fenced match holds braces, so the
\* brace pattern matches too; the two captures parse to different values only
\* when the fenced block sits inside a string of the larger object, where it
\* can hold no quote.
Replies ==
    {[whole |-> w, fenced |-> NoMatch, span |-> Found(w)] :
        w \in ObjectOutcomes \ {NoJson}}
    \cup {[whole |-> w, fenced |-> NoMatch, span |-> NoMatch] :
            w \in {JsonNull, Num("42"), Str("It is sunny.")}}
    \cup {[whole |-> NoJson, fenced |-> NoMatch, span |-> s] :
            s \in {NoMatch} \cup {Found(x) : x \in ObjectOutcomes}}
    \cup UNION {{[whole |-> NoJson, fenced |-> Found(f), span |-> Found(s)] :
                    s \in SpanOutcomes(f)} : f \in ObjectOutcomes}

\* Faulty variant: an unparseable fenced block falls through to the braces.
ExtractJsonFallsThrough(reply) ==
    IF reply.whole # NoJson
    THEN [parsed |-> reply.whole, tryLog |-> <<>>]
    ELSE IF reply.fenced.found /\ reply.fenced.parse # NoJson
    THEN [parsed |-> reply.fenced.parse, tryLog |-> <<"jsonMatch", "> found">>]
    ELSE IF reply.span.found
    THEN [parsed |-> reply.span.parse,
          tryLog |-> <<"jsonMatch", "objectMatch", "> found">>]
    ELSE [parsed |-> NoJson, tryLog |-> <<"jsonMatch", "objectMatch">>]

\* The inner try/catch of parseToolCallResponse: the value of `parsed`, NoJson
\* where a JSON.parse threw or nothing matched, and the tryLog so far.
ExtractJson(reply) ==
    IF reply.whole # NoJson
    THEN [parsed |-> reply.whole, tryLog |-> <<>>]
    ELSE IF reply.fenced.found
    THEN [parsed |-> reply.fenced.parse, tryLog |-> <<"jsonMatch", "> found">>]
    ELSE IF reply.span.found
    THEN [parsed |-> reply.span.parse,
          tryLog |-> <<"jsonMatch", "objectMatch", "> found">>]
    ELSE [parsed |-> NoJson, tryLog |-> <<"jsonMatch", "objectMatch">>]

\* A JSON text is the sequence of its lexical tokens.
Punct(c) == [k |-> "punct", v |-> c]
Word(w) == [k |-> "word", v |-> w]
StrTok(s) == [k |-> "string", v |-> s]
NumTok(lit) == [k |-> "number", v |-> lit]

RECURSIVE SetToSeq(_)
SetToSeq(S) ==
    IF S = {} THEN <<>>
    ELSE LET x == CHOOSE y \in S : TRUE IN <<x>> \o SetToSeq(S \ {x})

\* The tokens JSON.stringify writes for a value: a number that is not finite
\* is written as null.
RECURSIVE StringifyValue(_)
StringifyValue(v) ==
    CASE v.t = "null" -> <<Word("null")>>
      [] v.t = "boolean" -> <<Word(IF v.v THEN "true" ELSE "false")>>
      [] v.t = "number" -> IF v.finite THEN <<NumTok(v.v)>> ELSE <<Word("null")>>
      [] v.t = "string" -> <<StrTok(v.v)>>
      [] v.t = "object" ->
            LET names == SetToSeq(DOMAIN v.fields) IN
            <<Punct("{")>>
                \o Join([i \in 1..Len(names) |->
                            <<StrTok(names[i]), Punct(":")>>
                                \o StringifyValue(v.fields[names[i]])],
                        <<Punct(",")>>)
                \o <<Punct("}")>>

\* Faulty variant: an object is written without its members.
StringifyDropsMembers(v) ==
    IF v.t = "undefined" THEN Undefined
    ELSE [t |-> "string",
          json |-> IF v.t = "object" THEN <<Punct("{"), Punct("}")>>
                   ELSE StringifyValue(v)]

\* JSON.stringify(v): a string holding the JSON text of v; undefined for
\* undefined.
Stringify(v) ==
    IF v.t = "undefined" THEN Undefined
    ELSE [t |-> "string", json |-> StringifyValue(v)]

ParseFailed == [ok |-> FALSE, val |-> NoJson, next |-> 0]

\* JSON.parse of the tokens from position i on: one value and the position
\* after it.  A repeated member name keeps the later value.
RECURSIVE ParseValueAt(_, _), ParseMembersAt(_, _, _)
ParseValueAt(toks, i) ==
    IF i > Len(toks) THEN ParseFailed
    ELSE LET tk == toks[i] IN
         CASE tk.k = "word" /\ tk.v = "null" -> [ok |-> TRUE, val |-> JsonNull, next |-> i + 1]
           [] tk.k = "word" /\ tk.v \in {"true", "false"} ->
                 [ok |-> TRUE, val |-> Bool(tk.v = "true"), next |-> i + 1]
           [] tk.k = "number" ->
                 [ok |-> TRUE, val |-> IF tk.v = "1e400" THEN Infinity ELSE Num(tk.v),
                  next |-> i + 1]
           [] tk.k = "string" -> [ok |-> TRUE, val |-> Str(tk.v), next |-> i + 1]
           [] tk.k = "punct" /\ tk.v = "{" ->
                 IF i + 1 <= Len(toks) /\ toks[i + 1] = Punct("}")
                 THEN [ok |-> TRUE, val |-> Obj(<<>>), next |-> i + 2]
                 ELSE ParseMembersAt(toks, i + 1, <<>>)
           [] OTHER -> ParseFailed

ParseMembersAt(toks, i, acc) ==
    IF i + 1 > Len(toks) \/ toks[i].k # "string" \/ toks[i + 1] # Punct(":")
    THEN ParseFailed
    ELSE LET member == ParseValueAt(toks, i + 2)
             fields == (toks[i].v :> member.val) @@ acc
         IN IF ~member.ok \/ member.next > Len(toks) THEN ParseFailed
            ELSE IF toks[member.next] = Punct("}")
            THEN [ok |-> TRUE, val |-> Obj(fields), next |-> member.next + 1]
            ELSE IF toks[member.next] = Punct(",")
            THEN ParseMembersAt(toks, member.next + 1, fields)
            ELSE ParseFailed

\* JSON.parse(text): the value, or NoJson where it throws.
ParseJson(toks) ==
    LET r == ParseValueAt(toks, 1) IN
    IF r.ok /\ r.next = Len(toks) + 1 THEN r.val ELSE NoJson

\* Faulty variant: the tool invocation also carries the final text.
ToolCallsResponseWithFinal(parsed) ==
    [model |-> "ollama-cloud",
     choices |-> <<[index |-> 0,
                    message |-> [role |-> "assistant", content |-> Get(parsed, "final"),
                                 tool_calls |-> <<[type |-> "function",
                                                   function |-> [name |-> Get(parsed, "tool"),
                                                                 arguments |-> Stringify(Get(parsed, "arguments"))]]>>],
                    finish_reason |-> "tool_calls"]>>]

ToolCallsResponse(parsed) ==
    [model |-> "ollama-cloud",
     choices |-> <<[index |-> 0,
                    message |-> [role |-> "assistant", content |-> JsonNull,
                                 tool_calls |-> <<[type |-> "function",
                                                   function |-> [name |-> Get(parsed, "tool"),
                                                                 arguments |-> Stringify(Get(parsed, "arguments"))]]>>],
                    finish_reason |-> "tool_calls"]>>]

FinalResponse(parsed) ==
    [model |-> "ollama-cloud",
     choices |-> <<[index |-> 0,
                    message |-> [role |-> "assistant", content |-> Get(parsed, "final")],
                    finish_reason |-> "stop"]>>]

\* parseToolCallResponse: what it returns (JsonNull from the outer catch),
\* with the value of `parsed` and the tryLog it ended with.
parseToolCallResponse(reply) ==
    LET x == ExtractJson(reply) IN
    IF x.parsed = NoJson \/ x.parsed = JsonNull
    THEN [returns |-> JsonNull, parsed |-> x.parsed, tryLog |-> x.tryLog]
    ELSE IF Truthy(Get(x.parsed, "tool")) /\ Truthy(Get(x.parsed, "arguments"))
    THEN [returns |-> ToolCallsResponse(x.parsed), parsed |-> x.parsed, tryLog |-> x.tryLog]
    ELSE IF Truthy(Get(x.parsed, "final"))
    THEN [returns |-> FinalResponse(x.parsed), parsed |-> x.parsed, tryLog |-> x.tryLog]
    ELSE [returns |-> JsonNull, parsed |-> x.parsed,
          tryLog |-> Append(x.tryLog, "no 'tool' or final found")]

\* response.message.content as doSendRequest passes it on: the reply's text,
\* untouched.
RawContent(reply) == [t |-> "string", raw |-> reply]

\* The response doSendRequest builds itself from the upstream reply.
PlainResponse(reply) ==
    [model |-> "request.model",
     choices |-> <<[index |-> 0,
                    message |-> [role |-> "assistant", content |-> RawContent(reply)],
                    finish_reason |-> "stop"]>>]

\* Faulty variant: a reply that cannot be decoded makes the adapter call fail.
RespondOrThrow(reply, hasTools) ==
    IF hasTools /\ parseToolCallResponse(reply).returns = JsonNull
    THEN [kind |-> "throw", value |-> Null]
    ELSE IF hasTools
    THEN [kind |-> "return", value |-> parseToolCallResponse(reply).returns]
    ELSE [kind |-> "return", value |-> PlainResponse(reply)]

\* doSendRequest once ollama.chat has resolved with the reply: with tools the
\* decoded response where parseToolCallResponse returns one, otherwise the
\* plain response.
Respond(reply, hasTools) ==
    IF hasTools /\ parseToolCallResponse(reply).returns # JsonNull
    THEN [kind |-> "return", value |-> parseToolCallResponse(reply).returns]
    ELSE [kind |-> "return", value |-> PlainResponse(reply)]

\* ----------------------------------------------------------------- actions
Init ==
    /\ constructed = "new"
    /\ ctorArg = [present |-> FALSE, keys |-> <<>>]
    /\ cls = "none"
    /\ keys = <<>>
    /\ currentKeyIndex = -1
    /\ nextLog = <<>>
    /\ pc = [p \in Callers |-> "idle"]
    /\ totalKeys = [p \in Callers |-> 0]
    /\ attempt = [p \in Callers |-> 0]
    /\ lastError = [p \in Callers |-> Null]
    /\ calls = [p \in Callers |-> <<>>]
    /\ result = [p \in Callers |-> Pending]
    /\ overlap = [p \in Callers |-> FALSE]
    /\ sendsStarted = 0
    /\ lastUsage = Null
    /\ providers = [n \in Names |-> 0]
    /\ instances = <<>>
    /\ loads = [g \in Loaders |-> IdleLoad]
    /\ raced = {}
    /\ loadsStarted = 0
    /\ applied = Null

\* new ProviderClass(apiKeys, ...): BaseProvider's constructor builds the
\* KeyRotator, whose constructor throws on an absent or empty pool.
Construct(c, arg) ==
    /\ constructed = "new"
    /\ ctorArg' = arg
    /\ cls' = c
    /\ IF RotatorRejects(arg)
       THEN /\ constructed' = "failed"
            /\ UNCHANGED <<keys, currentKeyIndex>>
       ELSE /\ constructed' = "ready"
            /\ keys' = arg.keys
            /\ currentKeyIndex' = -1
    /\ UNCHANGED <<nextLog, pc, totalKeys, attempt, lastError, calls, result,
                   overlap, sendsStarted, lastUsage, regVars, applied>>

\* sendRequest(request) up to its first suspension.
SendRequest(p) ==
    /\ constructed = "ready"
    /\ pc[p] # "awaiting"
    /\ sendsStarted < MaxSends
    /\ sendsStarted' = sendsStarted + 1
    /\ totalKeys' = [totalKeys EXCEPT ![p] = getKeyCount]
    /\ overlap' = [q \in Callers |->
                     IF q = p THEN \E r \in Callers \ {p} : pc[r] = "awaiting"
                     ELSE IF pc[q] = "awaiting" THEN TRUE ELSE overlap[q]]
    /\ Iterate(p, 0, getKeyCount, Null, <<>>)
    /\ UNCHANGED <<constructed, ctorArg, cls, keys, lastUsage, regVars, applied>>

\* Faulty variant: the response is not returned and the loop goes on to the next key.
AdapterReturnsKeepsTrying(p) ==
    /\ pc[p] = "awaiting"
    /\ LET n == Len(calls[p])
           response == MakeResponse(p, attempt[p], calls[p][n].apiKey)
           settled == [calls EXCEPT ![p][n].outcome = response] IN
       Iterate(p, attempt[p] + 1, totalKeys[p], lastError[p], settled[p])
    /\ UNCHANGED <<constructed, ctorArg, cls, keys, totalKeys, overlap, sendsStarted,
                   lastUsage, regVars, applied>>

\* The pending doSendRequest of caller p completes normally: sendRequest
\* returns its response.
AdapterReturns(p) ==
    /\ pc[p] = "awaiting"
    /\ LET n == Len(calls[p])
           response == MakeResponse(p, attempt[p], calls[p][n].apiKey) IN
       /\ calls' = [calls EXCEPT ![p][n].outcome = response]
       /\ result' = [result EXCEPT ![p] = [kind |-> "return", value |-> response]]
    /\ pc' = [pc EXCEPT ![p] = "returned"]
    /\ UNCHANGED <<constructed, ctorArg, cls, keys, currentKeyIndex, nextLog, totalKeys,
                   attempt, lastError, overlap, sendsStarted, lastUsage, regVars, applied>>

\* The pending doSendRequest of caller p throws the wrapper of upstream error
\* e: the catch block of sendRequest classifies it and continues or rethrows.
AdapterThrows(p, e) ==
    /\ pc[p] = "awaiting"
    /\ LET n == Len(calls[p])
           error == WrapError(p, attempt[p], e)
           settled == [calls EXCEPT ![p][n].outcome = error] IN
       IF ClassifierRaises(cls, error)
       THEN /\ calls' = settled
            /\ lastError' = [lastError EXCEPT ![p] = error]
            /\ pc' = [pc EXCEPT ![p] = "threw"]
            /\ result' = [result EXCEPT ![p] =
                             [kind |-> "throw", error |-> ClassifierTypeError]]
            /\ UNCHANGED <<currentKeyIndex, nextLog, attempt>>
       ELSE IF CatchContinues(cls, error)
       THEN Iterate(p, attempt[p] + 1, totalKeys[p], error, settled[p])
       ELSE /\ calls' = settled
            /\ lastError' = [lastError EXCEPT ![p] = error]
            /\ pc' = [pc EXCEPT ![p] = "threw"]
            /\ result' = [result EXCEPT ![p] =
                             [kind |-> "throw", error |-> FatalThrow(error)]]
            /\ UNCHANGED <<currentKeyIndex, nextLog, attempt>>
    /\ UNCHANGED <<constructed, ctorArg, cls, keys, totalKeys, overlap, sendsStarted,
                   lastUsage, regVars, applied>>

\* Faulty variant: the usage probe takes its key with getNextKey.
GetUsageRotates ==
    /\ constructed = "ready"
    /\ currentKeyIndex' = NextIndex(currentKeyIndex, Len(keys))
    /\ lastUsage' = [kind |-> "usage", index |-> currentKeyIndex',
                     threw |-> FALSE,
                     apiKey |-> KeyAt(keys, currentKeyIndex'),
                     usageCalls |-> <<KeyAt(keys, currentKeyIndex')>>,
                     value |-> doGetUsage(KeyAt(keys, currentKeyIndex'))]
    /\ UNCHANGED <<constructed, ctorArg, cls, keys, nextLog, pc, totalKeys,
                   attempt, lastError, calls, result, overlap, sendsStarted,
                   regVars, applied>>

\* getUsage(): reads the current key without rotating and hands it to
\* doGetUsage, which both adapters implement as `return null`.  `usageCalls`
\* lists the keys doGetUsage was called with during this getUsage.
GetUsage ==
    /\ constructed = "ready"
    /\ lastUsage' = [kind |-> "usage", index |-> getCurrentIndex,
                     threw |-> getCurrentKey.threw,
                     apiKey |-> getCurrentKey.value,
                     usageCalls |-> <<getCurrentKey.value>>,
                     value |-> doGetUsage(getCurrentKey.value)]
    /\ UNCHANGED <<constructed, ctorArg, cls, keys, currentKeyIndex, nextLog, pc, totalKeys,
                   attempt, lastError, calls, result, overlap, sendsStarted,
                   regVars, applied>>

\* getProvider(name) -> loadProvider(name) up to its first suspension: a cache
\* hit returns at once, an unknown name throws, otherwise the call suspends
\* at `await import(modulePath)`.
GetProvider(g, n) ==
    /\ loads[g].pc # "importing"
    /\ loadsStarted < MaxLoads
    /\ loadsStarted' = loadsStarted + 1
    /\ IF CacheHit(n)
       THEN /\ loads' = [loads EXCEPT ![g] =
                           [pc |-> "done", name |-> n, outcome |-> "returned",
                            instance |-> providers[n], error |-> Null]]
            /\ UNCHANGED raced
       ELSE IF ~ConfigLookup(n).truthy
       THEN /\ loads' = [loads EXCEPT ![g] =
                           [pc |-> "done", name |-> n, outcome |-> "threw",
                            instance |-> 0, error |-> NotFoundError(n)]]
            /\ UNCHANGED raced
       ELSE /\ loads' = [loads EXCEPT ![g] = [pc |-> "importing", name |-> n]]
            /\ raced' = IF \E h \in Loaders \ {g} :
                               loads[h].pc = "importing" /\ loads[h].name = n
                        THEN raced \cup {n}
                        ELSE raced
    /\ UNCHANGED <<providers, instances, provVars, applied>>

\* Faulty variant: the instance is cached before the failing step, so a failed
\* load leaves a broken entry behind.
ImportSettlesCachesFirst(g) ==
    /\ loads[g].pc = "importing"
    /\ LET n == loads[g].name
           id == Len(instances) + 1 IN
       /\ instances' = Append(instances, n)
       /\ providers' = [providers EXCEPT ![n] = id]
       /\ IF LoadFails(ConfigLookup(n))
          THEN loads' = [loads EXCEPT ![g] =
                           [pc |-> "done", name |-> n, outcome |-> "threw",
                            instance |-> 0, error |-> LoadFailedError(n)]]
          ELSE loads' = [loads EXCEPT ![g] =
                           [pc |-> "done", name |-> n, outcome |-> "returned",
                            instance |-> id, error |-> Null]]
    /\ UNCHANGED <<raced, loadsStarted, provVars, applied>>

\* The import of loader g settles: loadProvider builds the provider, caches
\* and returns it, or throws the load failure from its catch block.
ImportSettles(g) ==
    /\ loads[g].pc = "importing"
    /\ LET n == loads[g].name
           id == Len(instances) + 1 IN
       IF LoadFails(ConfigLookup(n))
       THEN /\ loads' = [loads EXCEPT ![g] =
                           [pc |-> "done", name |-> n, outcome |-> "threw",
                            instance |-> 0, error |-> LoadFailedError(n)]]
            /\ UNCHANGED <<providers, instances>>
       ELSE /\ instances' = Append(instances, n)
            /\ providers' = [providers EXCEPT ![n] = id]
            /\ loads' = [loads EXCEPT ![g] =
                           [pc |-> "done", name |-> n, outcome |-> "returned",
                            instance |-> id, error |-> Null]]
    /\ UNCHANGED <<raced, loadsStarted, provVars, applied>>

RegistryNext ==
    \/ \E g \in Loaders, n \in Names : GetProvider(g, n)
    \/ \E g \in Loaders : ImportSettles(g)

SpecRegistry == Init /\ [][RegistryNext]_vars

\* One application of a function of the normalizer to an input.
ApplyPreprocess ==
    /\ applied = Null
    /\ \E messages \in MessageLists :
          applied' = [op |-> "preprocessMessages", input |-> messages,
                      output |-> preprocessMessages(messages)]
    /\ UNCHANGED <<provVars, regVars>>

ApplyInject ==
    /\ applied = Null
    /\ \E messages \in MessageLists :
          applied' = [op |-> "injectToolInstruction", input |-> messages,
                      output |-> injectToolInstruction(messages, Instruction)]
    /\ UNCHANGED <<provVars, regVars>>

ApplyDispatch ==
    /\ applied = Null
    /\ \E messages \in MessageLists, hasTools \in BOOLEAN :
          applied' = [op |-> "dispatch", input |-> messages, hasTools |-> hasTools,
                      output |-> DispatchedMessages(messages, hasTools)]
    /\ UNCHANGED <<provVars, regVars>>

ApplyParse ==
    /\ applied = Null
    /\ \E reply \in Replies :
          applied' = [op |-> "parseToolCallResponse", input |-> reply,
                      output |-> parseToolCallResponse(reply)]
    /\ UNCHANGED <<provVars, regVars>>

ApplyRespond ==
    /\ applied = Null
    /\ \E reply \in Replies, hasTools \in BOOLEAN :
          applied' = [op |-> "doSendRequest", input |-> reply, hasTools |-> hasTools,
                      decoded |-> IF hasTools THEN parseToolCallResponse(reply) ELSE Null,
                      output |-> Respond(reply, hasTools)]
    /\ UNCHANGED <<provVars, regVars>>

\* The catch block of sendRequest applied to one error of an adapter call.
ApplyCatch ==
    /\ applied = Null
    /\ \E c \in Classes, error \in ClassifierInputs :
          applied' = [op |-> "catch", class |-> c, input |-> error,
                      raised |-> ClassifierRaises(c, error),
                      output |-> CatchBlock(c, error)]
    /\ UNCHANGED <<provVars, regVars>>

ClassifierNext == ApplyCatch

SpecClassifier == Init /\ [][ClassifierNext]_vars

NormalizerNext ==
    \/ ApplyPreprocess
    \/ ApplyInject
    \/ ApplyDispatch
    \/ ApplyParse
    \/ ApplyRespond

SpecNormalizer == Init /\ [][NormalizerNext]_vars

Next ==
    \/ \E c \in Classes, arg \in PoolArgs : Construct(c, arg)
    \/ \E p \in Callers : SendRequest(p)
    \/ \E p \in Callers : AdapterReturns(p)
    \/ \E p \in Callers, e \in UpstreamErrors : AdapterThrows(p, e)
    \/ GetUsage

Spec == Init /\ [][Next]_vars

\* The pending adapter call of caller p settles, one way or the other.
AdapterSettles(p) ==
    AdapterReturns(p) \/ \E e \in UpstreamErrors : AdapterThrows(p, e)

\* Spec with every pending adapter call settling eventually: the promise
\* doSendRequest returns is resolved or rejected, and the event loop then runs
\* the continuation of sendRequest.
SpecSettling == Spec /\ \A p \in Callers : WF_vars(AdapterSettles(p))

\* ------------------------------------------------------------ observations
\* The i-th doSendRequest call of caller p's current send, counting from 1.
Outcome(p, i) == calls[p][i].outcome

FailedTransient(p, i) ==
    Outcome(p, i).kind = "error" /\ isQuotaExceededError(cls, Outcome(p, i))

FailedFatal(p, i) ==
    Outcome(p, i).kind = "error" /\ ~isQuotaExceededError(cls, Outcome(p, i))

Succeeded(p, i) == Outcome(p, i).kind = "response"

\* Every adapter call of p's send has completed, each with a transient error.
EveryCallTransient(p) ==
    /\ calls[p] # <<>>
    /\ \A i \in 1..Len(calls[p]) : FailedTransient(p, i)

\* p's send is over and failed after nothing but transient failures.
Exhausted(p) == pc[p] = "threw" /\ EveryCallTransient(p)

\* ------------------------------------------------------------------ claims
\* C1: a send that ran with no other send in flight on the provider, and whose
\* adapter calls all failed with a transient error, fails only after exactly N
\* adapter calls, one for each of the N pool positions.
C1_ExhaustionTakesOneCallPerPosition ==
    \A p \in Callers :
        (pc[p] = "threw" /\ ~overlap[p]
            /\ \A i \in 1..Len(calls[p]) : FailedTransient(p, i))
        => /\ Len(calls[p]) = Len(keys)
           /\ \A k \in 0..(Len(keys) - 1) :
                 Cardinality({i \in 1..Len(calls[p]) : calls[p][i].pos = k}) = 1

C1_Witness ==
    \E p \in Callers :
        /\ Exhausted(p)
        /\ ~overlap[p]
        /\ Len(keys) = 3
        /\ Len(calls[p]) = 3

\* C2: an adapter call that fails with an error classified fatal is the last
\* adapter call of its send, and the send throws that very error; a fatal
\* first attempt therefore means exactly one attempt, whatever the pool size.
C2_FatalStopsAndPropagates ==
    \A p \in Callers : \A i \in 1..Len(calls[p]) :
        FailedFatal(p, i)
        => /\ i = Len(calls[p])
           /\ pc[p] = "threw"
           /\ result[p] = [kind |-> "throw", error |-> Outcome(p, i)]

C2_Witness ==
    \E p \in Callers :
        /\ Len(keys) = 3
        /\ Len(calls[p]) = 1
        /\ FailedFatal(p, 1)
        /\ pc[p] = "threw"

\* C3: an adapter call that succeeds on attempt k is the last adapter call of
\* its send (k calls in all, the k-1 before it transient failures), and the
\* send returns that call's response.
C3_SuccessReturnsAtOnce ==
    \A p \in Callers : \A k \in 1..Len(calls[p]) :
        Succeeded(p, k)
        => /\ k = Len(calls[p])
           /\ \A i \in 1..(k - 1) : FailedTransient(p, i)
           /\ pc[p] = "returned"
           /\ result[p] = [kind |-> "return", value |-> Outcome(p, k)]

C3_Witness ==
    \E p \in Callers :
        /\ Len(calls[p]) = 3
        /\ Succeeded(p, 3)
        /\ pc[p] = "returned"

\* C4 (as claimed): no send invokes the adapter twice with the same pool
\* position, other sends on the same provider being in flight or not.
C4_NoPositionTwicePerSend ==
    \A p \in Callers : \A i, j \in 1..Len(calls[p]) :
        calls[p][i].pos = calls[p][j].pos => i = j

\* An error object carries an exhaustion tag.
Tagged(e) == "exhausted" \in DOMAIN e

\* The errors the adapter calls of p's send raised.
RaisedErrors(p) == {Outcome(p, i) : i \in {j \in 1..Len(calls[p]) : Outcome(p, j).kind = "error"}}

C6_FirstRoundVisitsPoolInOrder ==
    \A k \in 1..Len(nextLog) :
        /\ k <= Len(keys)
           => nextLog[k] = [index |-> k - 1, key |-> ctorArg.keys[k]]
        /\ k = Len(keys) + 1
           => nextLog[k] = [index |-> 0, key |-> ctorArg.keys[1]]

C6_Witness ==
    /\ Len(keys) = 3
    /\ Len(nextLog) = 4
    /\ nextLog[4].key = "key0"
    /\ {nextLog[k].key : k \in 1..3} = {"key0", "key1", "key2"}

\* C7: construction from an absent or empty pool fails and leaves no rotator;
\* construction from a pool of at least one credential succeeds.
C7_ConstructionFailsIffPoolEmpty ==
    constructed # "new"
    => /\ (~ctorArg.present \/ ctorArg.keys = <<>>)
          => constructed = "failed" /\ keys = <<>> /\ nextLog = <<>>
                /\ \A p \in Callers : pc[p] = "idle"
       /\ (ctorArg.present /\ ctorArg.keys # <<>>)
          => constructed = "ready" /\ keys = ctorArg.keys

C7_Witness ==
    /\ constructed = "failed"
    /\ ctorArg.present
    /\ ctorArg.keys = <<>>

\* C8 (as claimed): current() on a rotator whose next() was never called
\* fails; it returns neither a credential nor undefined.
C8_CurrentBeforeNextFails ==
    (lastUsage.kind = "usage" /\ lastUsage.index = -1) => lastUsage.threw

\* C9: the cursor is unset exactly as long as no getNextKey call has happened
\* and an index of the pool ever after; once set it is never unset again.
C9_CursorUnsetOrInRange ==
    /\ [](IF nextLog = <<>>
          THEN currentKeyIndex = -1
          ELSE currentKeyIndex \in 0..(Len(keys) - 1))
    /\ [][currentKeyIndex # -1 => currentKeyIndex' \in 0..(Len(keys) - 1)]_vars

C9_Witness ==
    /\ Len(keys) = 3
    /\ Len(nextLog) = 4
    /\ currentKeyIndex = 0
    /\ lastUsage.kind = "usage"
    /\ lastUsage.index = 2

\* C10: whatever the interleaving of sends, the k-th getNextKey call overall
\* returns position (k-1) mod N and leaves the cursor there, so two calls
\* return the same position only when a multiple of N calls apart.
C10_NextIsAtomicRoundRobin ==
    /\ \A k \in 1..Len(nextLog) :
          nextLog[k] = [index |-> (k - 1) % Len(keys), key |-> keys[((k - 1) % Len(keys)) + 1]]
    /\ nextLog # <<>> => currentKeyIndex = nextLog[Len(nextLog)].index
    /\ \A j, k \in 1..Len(nextLog) :
          nextLog[j].index = nextLog[k].index => (k - j) % Len(keys) = 0

C10_Witness ==
    /\ \A p \in Callers : overlap[p] /\ Len(calls[p]) = 2
    /\ Len(keys) = 3
    /\ Len(nextLog) = 4
    /\ currentKeyIndex = 0

\* C11: a getUsage call leaves the cursor, the pool and the rotation history
\* as they were, so the key the next getNextKey returns is the same with or
\* without the probe; it makes exactly one doGetUsage call, with the current key.
C11_GetUsageLeavesRotationAlone ==
    [][lastUsage' # lastUsage
         => /\ currentKeyIndex' = currentKeyIndex
            /\ keys' = keys
            /\ nextLog' = nextLog
            /\ NextIndex(currentKeyIndex', Len(keys')) = NextIndex(currentKeyIndex, Len(keys))
            /\ lastUsage'.usageCalls = <<KeyAt(keys, currentKeyIndex)>>]_vars

C11_Witness ==
    /\ lastUsage.kind = "usage"
    /\ lastUsage.index = 1
    /\ lastUsage.usageCalls = <<"key1">>
    /\ currentKeyIndex = 1
    /\ \E p \in Callers : pc[p] = "awaiting"

\* ---------------------------------------------------- registry observations
\* The instances built so far for name n.
InstancesOf(n) == {i \in 1..Len(instances) : instances[i] = n}

\* Loader g's latest getProvider call was for n and returned an instance.
Got(g, n) ==
    loads[g].pc = "done" /\ loads[g].name = n /\ loads[g].outcome = "returned"

\* C12: as long as no two getProvider calls for a name were in flight at once,
\* at most one instance is built for it, and every call for it returns that
\* instance, which is the one the cache holds.
C12_SequentialLoadsShareOneInstance ==
    \A n \in Names :
        n \notin raced
        => /\ Cardinality(InstancesOf(n)) <= 1
           /\ providers[n] # 0 => InstancesOf(n) = {providers[n]}
           /\ \A g \in Loaders :
                 Got(g, n) => loads[g].instance = providers[n] /\ providers[n] # 0

C12_Witness ==
    /\ "ollama" \notin raced
    /\ loadsStarted = 3
    /\ \A g \in Loaders : Got(g, "ollama") /\ loads[g].instance = 1
    /\ instances = <<"ollama">>

\* C13 (as claimed): also when getProvider calls for the same uncached name
\* run concurrently, one instance is built for the name and every caller
\* gets that one.
C13_ConcurrentLoadsShareOneInstance ==
    \A n \in raced :
        /\ Cardinality(InstancesOf(n)) <= 1
        /\ \A g, h \in Loaders :
              (Got(g, n) /\ Got(h, n)) => loads[g].instance = loads[h].instance

\* C14 (as claimed): a name that is no key of the configuration fails with the
\* not-found error, a configured name whose adapter module cannot be resolved
\* fails with the distinct load-failure error, and neither returns an instance.
C14_UnknownAndUnloadableFailDistinctly ==
    \A g \in Loaders :
        loads[g].pc = "done"
        => /\ loads[g].name \notin Configured
              => /\ loads[g].outcome = "threw"
                 /\ loads[g].instance = 0
                 /\ loads[g].error = NotFoundError(loads[g].name)
           /\ (loads[g].name \in Configured
                 /\ Config[loads[g].name].class \notin AdapterModules)
              => /\ loads[g].outcome = "threw"
                 /\ loads[g].instance = 0
                 /\ loads[g].error = LoadFailedError(loads[g].name)
                 /\ loads[g].error # NotFoundError(loads[g].name)

\* The upstream failures the claim calls transient: HTTP status 429, 502, 503
\* or 504, or an error text containing one of the three quota phrases.
ClaimedTransient(e) ==
    \/ e.status \in {429, 502, 503, 504}
    \/ e.words \cap {"quota", "rate limit", "too many requests"} # {}

\* C15 (as claimed): with either adapter class, after an upstream failure the
\* claim calls transient the send goes on to the next credential while one is
\* left, and after any other failure it throws at once.
C15_BothAdaptersRetryTransientFailures ==
    \A p \in Callers : \A i \in 1..Len(calls[p]) :
        Outcome(p, i).kind = "error"
        => IF ClaimedTransient(Outcome(p, i).provider_error)
           THEN i < totalKeys[p] => Len(calls[p]) > i
           ELSE i = Len(calls[p]) /\ pc[p] = "threw"

\* --------------------------------------------------- normalizer observations
\* The function `op` of the normalizer has been applied.
Applied(op) == "op" \in DOMAIN applied /\ applied.op = op

\* The text `part` occurs in `text`.
Contains(text, part) ==
    \E i \in 0..(Len(text) - Len(part)) : SubSeq(text, i + 1, i + Len(part)) = part

\* The content of a system message after the instruction was appended to it.
Extended(content) == content \o <<"\n\n">> \o Instruction

\* C16: injecting the tool instruction into a list whose first message has role
\* system yields a list of the same length and order, whose first message has
\* its original content followed by the instruction; no message is inserted.
C16_LeadingSystemMessageIsExtended ==
    (/\ Applied("injectToolInstruction")
     /\ applied.input # <<>>
     /\ applied.input[1].role = "system")
    => /\ Len(applied.output) = Len(applied.input)
       /\ applied.output[1] = [applied.input[1] EXCEPT !.content = Extended(@)]
       /\ \A i \in 1..Len(applied.input) :
            /\ applied.output[i].role = applied.input[i].role
            /\ applied.input[i].role # "system" => applied.output[i] = applied.input[i]

C16_Witness ==
    /\ Applied("injectToolInstruction")
    /\ Len(applied.input) = 2
    /\ applied.input[1].role = "system"
    /\ applied.input[2].role = "user"
    /\ applied.output[1].content = <<"Be brief.", "\n\n">> \o Instruction

\* C17 (as claimed): when the first message is not a system message, a new
\* system message carrying the instruction is inserted at position 0, and the
\* first message handed to the upstream is always a system message that
\* contains the instruction.
C17_NewLeadingSystemMessageUnlessLeading ==
    /\ (/\ Applied("injectToolInstruction")
        /\ ~(applied.input # <<>> /\ applied.input[1].role = "system"))
       => applied.output = <<Msg("system", Instruction, "", Absent)>> \o applied.input
    /\ (Applied("injectToolInstruction") \/ (Applied("dispatch") /\ applied.hasTools))
       => /\ applied.output # <<>>
          /\ applied.output[1].role = "system"
          /\ Contains(applied.output[1].content, Instruction)

\* C17 (amended): a list without any system message gets a new system message
\* carrying the instruction at position 0; a list whose first message is not a
\* system message but which has one later keeps its length and its first
\* message, and every system message in it has the instruction appended.
C17_NewSystemMessageOnlyWithoutAny ==
    (/\ Applied("injectToolInstruction")
     /\ ~(applied.input # <<>> /\ applied.input[1].role = "system"))
    => IF \A i \in 1..Len(applied.input) : applied.input[i].role # "system"
       THEN applied.output = <<Msg("system", Instruction, "", Absent)>> \o applied.input
       ELSE /\ Len(applied.output) = Len(applied.input)
            /\ applied.output[1] = applied.input[1]
            /\ \A i \in 1..Len(applied.input) :
                 applied.output[i] =
                    IF applied.input[i].role = "system"
                    THEN [applied.input[i] EXCEPT !.content = Extended(@)]
                    ELSE applied.input[i]

C17_Witness ==
    /\ Applied("injectToolInstruction")
    /\ Len(applied.input) = 2
    /\ applied.input[1].role = "user"
    /\ applied.input[2].role = "system"
    /\ Len(applied.output) = 2
    /\ applied.output[1].role = "user"
    /\ Contains(applied.output[2].content, Instruction)

\* C18 (as claimed): every message with role "tool" is rewritten into a message
\* with role "user" whose content contains the tool's result text, and no
\* message handed to the upstream has role "tool", whatever else it carries.
C18_NoToolRoleReachesUpstream ==
    /\ Applied("preprocessMessages")
       => \A i \in 1..Len(applied.input) :
            applied.input[i].role = "tool"
            => /\ applied.output[i].role = "user"
               /\ Contains(applied.output[i].content, applied.input[i].content)
    /\ (Applied("preprocessMessages") \/ Applied("dispatch"))
       => \A i \in 1..Len(applied.output) : applied.output[i].role # "tool"

\* A text that is one line in the canonical tool-call shape.
IsCanonicalLine(text) ==
    /\ Len(text) = 5
    /\ text[1] = "{\"tool\":\""
    /\ text[3] = "\",\"arguments\":"
    /\ text[5] = "}"
    /\ \A k \in 1..5 : text[k] \notin {"\n", "\n\n"}

\* C19 (as claimed): a message carrying tool_calls is replaced by a message
\* with the same role, no tool_calls, and a content that is a single canonical
\* line, whether it carries one call, several, or an empty list.
C19_ToolCallsBecomeOneLine ==
    Applied("preprocessMessages")
    => \A i \in 1..Len(applied.input) :
         applied.input[i].tool_calls.present
         => /\ applied.output[i].role = applied.input[i].role
            /\ ~applied.output[i].tool_calls.present
            /\ IsCanonicalLine(applied.output[i].content)

\* C19 (amended): a message carrying tool_calls is replaced by a message with
\* the same role, no tool_calls, and a content made of one canonical line per
\* tool call, in order, separated by line breaks: one line for one call,
\* k lines for k calls, the empty text for an empty list.
C19_ToolCallsBecomeOneLineEach ==
    Applied("preprocessMessages")
    => \A i \in 1..Len(applied.input) :
         applied.input[i].tool_calls.present
         => LET list == applied.input[i].tool_calls.list
                text == applied.output[i].content
            IN /\ applied.output[i].role = applied.input[i].role
               /\ ~applied.output[i].tool_calls.present
               /\ Len(text) = IF list = <<>> THEN 0 ELSE 6 * Len(list) - 1
               /\ \A k \in 1..Len(list) :
                    /\ IsCanonicalLine(SubSeq(text, 6 * k - 5, 6 * k - 1))
                    /\ text[6 * k - 4] = list[k].name
                    /\ text[6 * k - 2] = list[k].arguments
                    /\ k < Len(list) => text[6 * k] = "\n"

C19_Witness ==
    /\ Applied("preprocessMessages")
    /\ \E i \in 1..Len(applied.input) :
         /\ Len(applied.input[i].tool_calls.list) = 2
         /\ applied.output[i].content[6] = "\n"
         /\ Len(applied.output[i].content) = 11

\* The members of a tryLog.
Tried(log) == {log[k] : k \in 1..Len(log)}

\* C20 (as claimed): each later stage is attempted whenever the stage before
\* it produced no parsed JSON, a fenced block that is found but does not parse
\* included, and decoding ends without JSON only if none of the three stages
\* yields parseable JSON.
C20_EveryStageTriedBeforeFailure ==
    Applied("parseToolCallResponse")
    => LET reply == applied.input
           wholeFails == reply.whole = NoJson
           fencedFails == ~reply.fenced.found \/ reply.fenced.parse = NoJson
           spanFails == ~reply.span.found \/ reply.span.parse = NoJson
       IN /\ wholeFails => "jsonMatch" \in Tried(applied.output.tryLog)
          /\ wholeFails /\ fencedFails => "objectMatch" \in Tried(applied.output.tryLog)
          /\ applied.output.parsed = NoJson => wholeFails /\ fencedFails /\ spanFails

\* C20 (amended): the whole reply is parsed first; when that fails the fenced
\* block is searched; the first-to-last-brace span is searched only when no
\* fenced block is found.  A fenced block that is found decides the outcome:
\* if its contents do not parse, decoding ends without JSON and returns null
\* without looking at the span.
C20_SpanTriedOnlyWithoutFencedBlock ==
    Applied("parseToolCallResponse")
    => LET reply == applied.input
           out == applied.output
       IN /\ reply.whole # NoJson
               => out.parsed = reply.whole /\ Tried(out.tryLog) \cap {"jsonMatch", "objectMatch"} = {}
          /\ reply.whole = NoJson /\ reply.fenced.found
               => /\ out.parsed = reply.fenced.parse
                  /\ "jsonMatch" \in Tried(out.tryLog)
                  /\ "objectMatch" \notin Tried(out.tryLog)
          /\ reply.whole = NoJson /\ ~reply.fenced.found
               => /\ {"jsonMatch", "objectMatch"} \subseteq Tried(out.tryLog)
                  /\ out.parsed = IF reply.span.found THEN reply.span.parse ELSE NoJson
          /\ out.parsed = NoJson => out.returns = JsonNull

C20_Witness ==
    /\ Applied("parseToolCallResponse")
    /\ applied.input = [whole |-> NoJson, fenced |-> Found(NoJson), span |-> Found(FinalJson)]
    /\ applied.output.returns = JsonNull
    /\ applied.output.tryLog = <<"jsonMatch", "> found">>

\* --------------------------------------------------- response observations
\* doSendRequest decoded a reply for a request that carries tool schemas.
Decoded == Applied("doSendRequest") /\ applied.hasTools

\* The single choice of a response.
Choice(response) == response.choices[1]

\* The choice is a structured tool invocation.
IsToolInvocation(choice) ==
    /\ choice.finish_reason = "tool_calls"
    /\ "tool_calls" \in DOMAIN choice.message
    /\ Len(choice.message.tool_calls) = 1
    /\ choice.message.content = JsonNull

HasFields(v, names) == v.t = "object" /\ names \subseteq DOMAIN v.fields

\* C21 (as claimed): a reply that parses to JSON with a tool field and an
\* arguments field yields one tool-invocation choice whose function name is the
\* tool field and whose arguments text deserializes to the arguments field.
C21_ToolCallRoundTrip ==
    (Decoded /\ HasFields(applied.decoded.parsed, {"tool", "arguments"}))
    => LET parsed == applied.decoded.parsed
           response == applied.output.value
       IN /\ Len(response.choices) = 1
          /\ IsToolInvocation(Choice(response))
          /\ LET call == Choice(response).message.tool_calls[1].function IN
             /\ call.name = parsed.fields.tool
             /\ ParseJson(call.arguments.json) = parsed.fields.arguments

\* A JSON value with every number that is not finite replaced by null.
RECURSIVE NonFiniteAsNull(_)
NonFiniteAsNull(v) ==
    IF v.t = "number" /\ ~v.finite THEN JsonNull
    ELSE IF v.t = "object"
    THEN Obj([n \in DOMAIN v.fields |-> NonFiniteAsNull(v.fields[n])])
    ELSE v

\* An empty string, null, false, 0 or an absent field.
Falsy(v) ==
    \/ v \in {Undefined, JsonNull, Str(""), Num("0"), Bool(FALSE)}

\* C21 (amended): the tool invocation is produced when the tool field and the
\* arguments field are both truthy; its arguments text deserializes to the
\* arguments field with numbers beyond the double range turned into null.  A
\* reply whose tool or arguments field is falsy yields no tool invocation.
C21_TruthyToolCallRoundTrip ==
    (Decoded /\ HasFields(applied.decoded.parsed, {"tool", "arguments"}))
    => LET parsed == applied.decoded.parsed
           response == applied.output.value
       IN /\ Len(response.choices) = 1
          /\ IF Falsy(parsed.fields.tool) \/ Falsy(parsed.fields.arguments)
             THEN /\ Choice(response).finish_reason = "stop"
                  /\ "tool_calls" \notin DOMAIN Choice(response).message
             ELSE /\ IsToolInvocation(Choice(response))
                  /\ LET call == Choice(response).message.tool_calls[1].function IN
                     /\ call.name = parsed.fields.tool
                     /\ ParseJson(call.arguments.json)
                            = NonFiniteAsNull(parsed.fields.arguments)

C21_Witness ==
    /\ Decoded
    /\ applied.input.whole = ToolJson
    /\ IsToolInvocation(Choice(applied.output.value))
    /\ Choice(applied.output.value).message.tool_calls[1].function.name = Str("websearch")
    /\ ParseJson(Choice(applied.output.value).message.tool_calls[1].function.arguments.json)
          = Obj([q |-> Str("weather")])

\* The choice is an ordinary assistant turn.
IsPlainTurn(choice) ==
    /\ choice.message.role = "assistant"
    /\ "tool_calls" \notin DOMAIN choice.message
    /\ choice.message.content \notin {JsonNull, Undefined}

\* C22 (as claimed): a reply whose parsed JSON has a final field and no
\* tool/arguments pair yields a plain assistant choice with finish_reason stop
\* whose content is the value of the final field, the empty string included,
\* whether the JSON was the whole reply or sat in a fenced block.
C22_FinalFieldBecomesContent ==
    (/\ Decoded
     /\ HasFields(applied.decoded.parsed, {"final"})
     /\ ~HasFields(applied.decoded.parsed, {"tool", "arguments"}))
    => LET response == applied.output.value IN
       /\ Len(response.choices) = 1
       /\ IsPlainTurn(Choice(response))
       /\ Choice(response).finish_reason = "stop"
       /\ Choice(response).message.content = applied.decoded.parsed.fields.final

\* The response is the plain one built from the undecoded reply.
IsRawFallback(response, reply) ==
    /\ Len(response.choices) = 1
    /\ Choice(response).message = [role |-> "assistant", content |-> RawContent(reply)]
    /\ Choice(response).finish_reason = "stop"

\* C23: decoding yields a decoded response or null and never raises; when it
\* yields null the adapter call still returns, and what it returns is the raw
\* reply as an ordinary assistant choice with finish_reason stop.
C23_DecodeFailureFallsBackToRawText ==
    Applied("doSendRequest")
    => /\ applied.output.kind = "return"
       /\ applied.hasTools
            => \/ /\ applied.decoded.returns = JsonNull
                  /\ IsRawFallback(applied.output.value, applied.input)
               \/ /\ applied.decoded.returns # JsonNull
                  /\ applied.decoded.returns.choices # <<>>
                  /\ applied.output.value = applied.decoded.returns

C23_Witness ==
    /\ Decoded
    /\ applied.input = [whole |-> NoJson, fenced |-> NoMatch, span |-> NoMatch]
    /\ applied.decoded.returns = JsonNull
    /\ applied.output.kind = "return"
    /\ IsRawFallback(applied.output.value, applied.input)

\* C24: every response of the adapter has exactly one choice, and its message
\* is either an ordinary assistant turn (content not null, no tool_calls) or a
\* tool invocation (tool_calls, content null), never both, also for a reply
\* that holds a tool/arguments pair and a final field together.
C24_OneChoiceTextOrToolInvocation ==
    Applied("doSendRequest")
    => LET response == applied.output.value IN
       /\ Len(response.choices) = 1
       /\ IsPlainTurn(Choice(response)) \/ IsToolInvocation(Choice(response))
       /\ ~(IsPlainTurn(Choice(response)) /\ IsToolInvocation(Choice(response)))
       /\ "tool_calls" \in DOMAIN Choice(response).message
            <=> Choice(response).message.content = JsonNull

C24_Witness ==
    /\ Decoded
    /\ applied.decoded.parsed = BothJson
    /\ IsToolInvocation(Choice(applied.output.value))
    /\ ~IsPlainTurn(Choice(applied.output.value))

\* C25: a send makes at most N adapter calls, N the pool size, and it does not
\* stay pending: once begun it returns or throws, whatever the outcomes of its adapter calls (every one
\* of them a failure included) and however other sends and getUsage calls on
\* the provider interleave with it.
C25_SendEndsWithinPoolSizeCalls ==
    /\ [](\A p \in Callers : Len(calls[p]) <= Len(keys))
    /\ \A p \in Callers : []<>(pc[p] # "awaiting")

C25_Witness ==
    \E p \in Callers :
        /\ pc[p] = "threw"
        /\ overlap[p]
        /\ Len(keys) = 2
        /\ Len(calls[p]) = 2
        /\ \A i \in 1..2 : Outcome(p, i).kind = "error"
        /\ lastUsage # Null

\* C26 (as claimed): for every error of an adapter call, whatever its nested
\* payload, the classifier returns a verdict without raising, so what the
\* catch block of send throws is the adapter call's error and nothing new.
C26_ClassifierIsTotal ==
    Applied("catch")
    => /\ ~applied.raised
       /\ applied.output.kind = "throw" => applied.output.error = applied.input

\* Caller p begins a send in this step while no send is pending on the
\* provider, so every earlier send is over and none overlaps the new one.
BeginsApart(p) ==
    /\ sendsStarted' = sendsStarted + 1
    /\ pc'[p] = "awaiting" /\ Len(calls'[p]) = 1
    /\ \A q \in Callers : pc[q] # "awaiting"

\* The pool position of the most recent adapter call before this step: the
\* last one tried by the send that was active last.
LastTried == nextLog[Len(nextLog)].index

\* C27: the first position a send tries is the successor modulo N of the last
\* position tried by the send before it, which it does not overlap, whether
\* that send returned, failed fatally or exhausted the pool; the first send
\* after construction tries position 0.
C27_RotationCarriesOverBetweenSends ==
    [][\A p \in Callers :
          BeginsApart(p)
          => /\ nextLog = <<>> => calls'[p][1].pos = 0
             /\ nextLog # <<>>
                  => /\ calls'[p][1].pos = (LastTried + 1) % Len(keys)
                     /\ \E q \in Callers :
                          /\ pc[q] \in {"returned", "threw"}
                          /\ calls[q][Len(calls[q])].pos = LastTried]_vars

C27_Witness ==
    \E p, q \in Callers :
        /\ p # q
        /\ Len(keys) = 3
        /\ Exhausted(q) /\ ~overlap[q] /\ Len(calls[q]) = 3
        /\ pc[p] = "awaiting" /\ ~overlap[p]
        /\ calls[q][3].pos = 2
        /\ calls[p][1].pos = 0
        /\ Len(nextLog) = 4

\* Loader g's latest getProvider call was for n and threw.
Failed(g, n) ==
    loads[g].pc = "done" /\ loads[g].name = n /\ loads[g].outcome = "threw"

\* C28: a getProvider call that fails (unknown name, adapter that cannot be
\* loaded, empty credential pool) changes nothing in the cache: no entry for
\* its name, the entries of other names as they were, nothing built; and a
\* later call for that name is not served from the cache but looks the name up
\* and, where it is configured, imports and constructs again.
C28_FailedLoadLeavesCacheAlone ==
    [][\A g \in Loaders :
          /\ (loads'[g] # loads[g] /\ loads'[g].pc = "done" /\ loads'[g].outcome = "threw")
             => /\ providers' = providers
                /\ instances' = instances
                /\ providers'[loads'[g].name] = 0
                /\ loads'[g].instance = 0
          /\ \A h \in Loaders \ {g} :
               (/\ loadsStarted' = loadsStarted + 1
                /\ loads'[h] # loads[h]
                /\ Failed(g, loads'[h].name))
               => IF ConfigLookup(loads'[h].name).truthy
                  THEN loads'[h].pc = "importing"
                  ELSE /\ loads'[h].pc = "done"
                       /\ loads'[h].error = NotFoundError(loads'[h].name)]_vars

C28_Witness ==
    /\ providers["ollama"] = 1
    /\ providers["nokeys"] = 0
    /\ instances = <<"ollama">>
    /\ "nokeys" \notin raced
    /\ Failed("g1", "nokeys")
    /\ loads["g1"].error = LoadFailedError("nokeys")
    /\ loads["g2"] = [pc |-> "importing", name |-> "nokeys"]

\* The messages of a list that hold the instruction.
Instructed(messages) ==
    {j \in 1..Len(messages) : Contains(messages[j].content, Instruction)}

IsPrefix(part, text) ==
    Len(part) <= Len(text) /\ SubSeq(text, 1, Len(part)) = part

\* doSendRequest prepared the messages of a request that carries tool schemas.
DispatchedWithTools == Applied("dispatch") /\ applied.hasTools

\* C29 (as claimed): the dispatched list holds the instruction in exactly one
\* message, whatever the number of system messages in the input, and every
\* caller message keeps its position and role and has its original content as
\* a prefix of its dispatched content.
C29_InstructionOnceCallerMessagesInPlace ==
    DispatchedWithTools
    => /\ Cardinality(Instructed(applied.output)) = 1
       /\ \A i \in 1..Len(applied.input) :
            /\ i <= Len(applied.output)
            /\ applied.output[i].role = applied.input[i].role
            /\ IsPrefix(applied.input[i].content, applied.output[i].content)

\* The system messages of a list.
SystemMessages(messages) ==
    {j \in 1..Len(messages) : messages[j].role = "system"}

\* The message is passed on as it is, or extended: it has no tool_calls and is
\* no tool result.
PassedOn(msg) == ~msg.tool_calls.present /\ msg.role # "tool"

\* C29 (amended): with no system message in the input the instruction sits in
\* one new message at position 0 and every caller message moves one position
\* up; otherwise it sits in every system message, once in each, and every
\* caller message keeps its position.  Caller messages keep their order; one
\* without tool_calls that is no tool result keeps its role and has its
\* content as a prefix of the dispatched content; a tool result without
\* tool_calls is dispatched with role user, any message with tool_calls with
\* its own role.
C29_InstructionInEverySystemMessage ==
    DispatchedWithTools
    => LET in == applied.input
           out == applied.output
           shift == IF SystemMessages(in) = {} THEN 1 ELSE 0
       IN /\ Len(out) = Len(in) + shift
          /\ Instructed(out) = IF shift = 1 THEN {1} ELSE SystemMessages(in)
          /\ shift = 1 => out[1] = Msg("system", Instruction, "", Absent)
          /\ \A i \in 1..Len(in) :
               /\ out[i + shift].role =
                     IF in[i].role = "tool" /\ ~in[i].tool_calls.present
                     THEN "user" ELSE in[i].role
               /\ PassedOn(in[i]) => IsPrefix(in[i].content, out[i + shift].content)
               /\ PassedOn(in[i]) /\ in[i].role # "system" => out[i + shift] = in[i]
               /\ in[i].role = "system" /\ PassedOn(in[i])
                    => out[i + shift].content = Extended(in[i].content)

C29_Witness ==
    /\ DispatchedWithTools
    /\ Len(applied.input) = 3
    /\ SystemMessages(applied.input) = {1, 3}
    /\ applied.input[2].role = "user"
    /\ Instructed(applied.output) = {1, 3}
    /\ applied.output[2] = applied.input[2]

====
